---- MODULE Spec2Model ----
(***************************************************************************)
(* Model of pyvlx/node_updater.py: NodeUpdater updates the nodes of the    *)
(* registry (pyvlx.nodes) from incoming notification frames.               *)
(*                                                                         *)
(* One action per frame kind models one whole call of process_frame, the   *)
(* awaited after_update hook included.  The variables before, frame, clock,*)
(* hooks and raised are the record of that call: the registry as it was    *)
(* when the call started, the frame it was given, the datetime.now()       *)
(* reading it took, how often it invoked each node's after_update, and the *)
(* exception it propagated.  Calls are serialized: the caller delivers the *)
(* next frame when the call has returned, and the record is dropped then.  *)
(*                                                                         *)
(* A second pair of specifications splits a call at its await: calls holds *)
(* the coroutines started so far, each suspended in after_update or        *)
(* returned.  Spec leaves calls empty.                                     *)
(***************************************************************************)
EXTENDS Integers, FiniteSets, Sequences, TLC

VARIABLES nodes, before, frame, clock, hooks, raised, calls

vars == <<nodes, before, frame, clock, hooks, raised, calls>>

---------------------------------------------------------------------------
(* Bounds of the model. *)

\* Parameter.MAX, scaled down: raw values 0..ParameterMAX are valid.
ParameterMAX == 1

\* frame.remaining_time ranges over 0..MaxRemainingTime seconds.
MaxRemainingTime == 1

---------------------------------------------------------------------------
(* Values. *)

\* Python's None.
None == [none |-> TRUE]

\* Raw 16 bit parameter values: the valid ones and one beyond Parameter.MAX
\* (such as 0xF7FF, 'no feed-back value known').
RawValues == 0..(ParameterMAX + 1)

\* The raw values of frame.current_position: one more, so that a position
\* can lie above a target that is itself beyond Parameter.MAX.
RawPositions == 0..(ParameterMAX + 2)

\* Position(parameter) and Position(position=...): the object's .position.
Position(raw) == [position |-> raw]

\* Intensity(parameter): the object's .intensity.
Intensity(raw) == [intensity |-> raw]

\* LimitationTime(limit_raw=...).
LimitationTime(raw) == [limit_raw |-> raw]

\* A datetime.datetime, in seconds.
DateTime(t) == [seconds |-> t]

\* datetime + datetime.timedelta(0, seconds)
PlusSeconds(dt, s) == [seconds |-> dt.seconds + s]

\* The readings datetime.datetime.now() can give: two of them, the later one
\* after every completion time estimated from the earlier one.
ClockReadings == {0, MaxRemainingTime + 1}

\* OperatingState values of frame.state.
OperatingStates == {"EXECUTING", "DONE"}

---------------------------------------------------------------------------
(* The node classes. *)

Kinds == {"Window", "Blind", "LighteningDevice", "OnOffSwitch", "Node"}

\* isinstance(node, OpeningDevice): Blind is a subclass of OpeningDevice.
IsOpeningDevice(node) == node.kind \in {"Window", "Blind"}

\* isinstance(node, Blind)
IsBlind(node) == node.kind = "Blind"

\* isinstance(node, LighteningDevice)
IsLighteningDevice(node) == node.kind = "LighteningDevice"

OpeningDeviceFields ==
    [position |-> None, target |-> None,
     is_opening |-> FALSE, is_closing |-> FALSE,
     state_received_at |-> None, estimated_completion |-> None,
     limitation_max |-> None, limitation_min |-> None,
     limitation_originator |-> None, limitation_time |-> None]

\* A node as the registry holds it before any notification about it.
NewNode(kind) ==
    CASE kind = "Window" -> [kind |-> kind] @@ OpeningDeviceFields
      [] kind = "Blind" -> [kind |-> kind, orientation |-> None] @@ OpeningDeviceFields
      [] kind = "LighteningDevice" -> [kind |-> kind, intensity |-> None]
      [] kind = "OnOffSwitch" -> [kind |-> kind, parameter |-> None]
      [] OTHER -> [kind |-> kind]

\* An identifier that is in no registry.
UnknownNodeId == 3

\* pyvlx.nodes: a registry of one node of any class, or of two
\* LighteningDevices.
Registries ==
    { (1 :> NewNode(k)) : k \in Kinds }
      \cup { (1 :> NewNode("LighteningDevice")) @@ (2 :> NewNode("LighteningDevice")) }

\* No after_update has been invoked.
NoHooks == [i \in DOMAIN nodes |-> 0]

\* await node.after_update(), for the node with identifier id.
AfterUpdate(hs, id) == [hs EXCEPT ![id] = @ + 1]

---------------------------------------------------------------------------
(* The frames. *)

\* FrameGetAllNodesInformationNotification and
\* FrameNodeStatePositionChangedNotification: one isinstance test takes both
\* and the code reads the same attributes of either.
PositionFrames ==
    [kind : {"FrameNodeStatePositionChangedNotification"}, node_id : DOMAIN nodes,
     current_position : RawPositions, target : RawValues,
     state : OperatingStates, remaining_time : 0..MaxRemainingTime]

\* NodeParameter(0) is the main parameter, NodeParameter(3) is FP3.
ParameterData ==
    UNION { [d -> RawValues] : d \in SUBSET {0, 3} }

StatusRequestFrames ==
    [kind : {"FrameStatusRequestNotification"}, node_id : DOMAIN nodes,
     parameter_data : ParameterData]

LimitationPayloads ==
    { [min_value |-> 0, max_value |-> ParameterMAX + 1,
       limit_originator |-> "USER", limit_time |-> 1],
      [min_value |-> ParameterMAX + 1, max_value |-> ParameterMAX,
       limit_originator |-> "RAIN", limit_time |-> 0] }

LimitationFrames ==
    { [kind |-> "FrameGetLimitationStatusNotification", node_id |-> i] @@ p :
        i \in DOMAIN nodes, p \in LimitationPayloads }

\* A frame for a node that is not in the registry: the call returns at the
\* lookup and reads no other attribute of the frame.
UnknownNodeFrame(kind) == [kind |-> kind, node_id |-> UnknownNodeId]

\* Any frame of another class: process_frame reads no attribute of it.
OtherFrames == { [kind |-> "FrameOther"] }

\* No call is in progress and no record of a call is kept.
Idle == frame = None

---------------------------------------------------------------------------
(* process_frame, lines 59-155: position changed / all nodes information. *)

\* (frame.state == OperatingState.EXECUTING) or frame.remaining_time > 0
Moving(f) == f.state = "EXECUTING" \/ f.remaining_time > 0

\* OpeningCondition with a range test of the position as well.
OpeningCondition_PositionChecked(f) ==
    /\ Position(f.current_position).position > Position(f.target).position
    /\ Position(f.current_position).position <= ParameterMAX
    /\ Position(f.target).position <= ParameterMAX
    /\ Moving(f)

\* OpeningCondition without the range test of the target.
OpeningCondition_NoTargetCheck(f) ==
    /\ Position(f.current_position).position > Position(f.target).position
    /\ Moving(f)

\* position.position > target.position <= Parameter.MAX, and moving
OpeningCondition(f) ==
    /\ Position(f.current_position).position > Position(f.target).position
    /\ Position(f.target).position <= ParameterMAX
    /\ Moving(f)

\* position.position < target.position <= Parameter.MAX, and moving
ClosingCondition(f) ==
    /\ Position(f.current_position).position < Position(f.target).position
    /\ Position(f.target).position <= ParameterMAX
    /\ Moving(f)

\* StopMoving with the second test as an elif of the first.
StopMoving_Elif(node) ==
    IF node.is_opening
    THEN [node EXCEPT !.is_opening = FALSE,
                      !.state_received_at = None,
                      !.estimated_completion = None]
    ELSE IF node.is_closing THEN [node EXCEPT !.is_closing = FALSE] ELSE node

\* StopMoving with the timestamps cleared when closing stops, too.
StopMoving_Symmetric(node) ==
    LET n1 == IF node.is_opening
              THEN [node EXCEPT !.is_opening = FALSE,
                                !.state_received_at = None,
                                !.estimated_completion = None]
              ELSE node
    IN  IF n1.is_closing
        THEN [n1 EXCEPT !.is_closing = FALSE,
                        !.state_received_at = None,
                        !.estimated_completion = None]
        ELSE n1

\* The else branch: stop opening, then stop closing.
StopMoving(node) ==
    LET n1 == IF node.is_opening
              THEN [node EXCEPT !.is_opening = FALSE,
                                !.state_received_at = None,
                                !.estimated_completion = None]
              ELSE node
    IN  IF n1.is_closing THEN [n1 EXCEPT !.is_closing = FALSE] ELSE n1

\* SetOpeningDeviceStatus without the timestamps in the closing branch.
SetOpeningDeviceStatus_ClosingUntimed(node, f, now) ==
    IF OpeningCondition(f)
    THEN [node EXCEPT !.is_opening = TRUE,
                      !.state_received_at = DateTime(now),
                      !.estimated_completion =
                          PlusSeconds(DateTime(now), f.remaining_time)]
    ELSE IF ClosingCondition(f)
    THEN [node EXCEPT !.is_closing = TRUE]
    ELSE StopMoving(node)

\* Set opening device status; now is the reading of datetime.datetime.now().
SetOpeningDeviceStatus(node, f, now) ==
    IF OpeningCondition(f)
    THEN [node EXCEPT !.is_opening = TRUE,
                      !.state_received_at = DateTime(now),
                      !.estimated_completion =
                          PlusSeconds(DateTime(now), f.remaining_time)]
    ELSE IF ClosingCondition(f)
    THEN [node EXCEPT !.is_closing = TRUE,
                      !.state_received_at = DateTime(now),
                      !.estimated_completion =
                          PlusSeconds(DateTime(now), f.remaining_time)]
    ELSE StopMoving(node)

\* SetMainParameter with the target written only if it is within range too.
SetMainParameter_TargetFiltered(node, f) ==
    LET n1 == IF Position(f.current_position).position <= ParameterMAX
              THEN [node EXCEPT !.position = Position(f.current_position)]
              ELSE node
    IN  IF Position(f.target).position <= ParameterMAX
        THEN [n1 EXCEPT !.target = Position(f.target)] ELSE n1

\* Set main parameter of an OpeningDevice.
SetMainParameter(node, f) ==
    IF Position(f.current_position).position <= ParameterMAX
    THEN [node EXCEPT !.position = Position(f.current_position),
                      !.target = Position(f.target)]
    ELSE node

\* The LighteningDevice branch.
SetIntensity(node, f) ==
    IF Intensity(f.current_position).intensity <= ParameterMAX
    THEN [node EXCEPT !.intensity = Intensity(f.current_position)]
    ELSE node

\* Whether the call reads datetime.datetime.now().
ReadsClock(node, f) ==
    IsOpeningDevice(node) /\ (OpeningCondition(f) \/ ClosingCondition(f))

\* SwitchParameter(parameter): the object's .state.
SwitchParameter(raw) == [state |-> raw]

\* The raw values of Parameter.ON and Parameter.OFF, the two ends of the
\* valid range.
SwitchStates == {0, ParameterMAX}

\* The exception the position branch propagates: a node that is neither an
\* OpeningDevice nor a LighteningDevice reaches isinstance(node, OnOffSwitch),
\* and the module imports no OnOffSwitch (nor SwitchParameter).
PositionFrameRaises(node) ==
    IF IsOpeningDevice(node) \/ IsLighteningDevice(node)
    THEN "none" ELSE "NameError"

\* UpdateOpeningDevice with the hook awaited only when the position is written.
UpdateOpeningDevice_HookOnWrite(ns, f, now) ==
    [nodes |-> [ns EXCEPT ![f.node_id] =
                   SetMainParameter(SetOpeningDeviceStatus(@, f, now), f)],
     hooks |-> IF Position(f.current_position).position <= ParameterMAX
               THEN AfterUpdate(NoHooks, f.node_id) ELSE NoHooks]

\* The OpeningDevice branches of lines 79-131: the status, the main
\* parameter, then the hook.
UpdateOpeningDevice(ns, f, now) ==
    [nodes |-> [ns EXCEPT ![f.node_id] =
                   SetMainParameter(SetOpeningDeviceStatus(@, f, now), f)],
     hooks |-> AfterUpdate(NoHooks, f.node_id)]

\* UpdateLighteningDevice that writes every LighteningDevice of the registry.
UpdateLighteningDevice_AllNodes(ns, f) ==
    [nodes |-> [i \in DOMAIN ns |->
                   IF IsLighteningDevice(ns[i]) THEN SetIntensity(ns[i], f) ELSE ns[i]],
     hooks |-> AfterUpdate(NoHooks, f.node_id)]

\* UpdateLighteningDevice with the hook awaited only when the intensity is
\* written.
UpdateLighteningDevice_HookOnWrite(ns, f) ==
    [nodes |-> [ns EXCEPT ![f.node_id] = SetIntensity(@, f)],
     hooks |-> IF Intensity(f.current_position).intensity <= ParameterMAX
               THEN AfterUpdate(NoHooks, f.node_id) ELSE NoHooks]

\* The LighteningDevice branch of lines 139-144.
UpdateLighteningDevice(ns, f) ==
    [nodes |-> [ns EXCEPT ![f.node_id] = SetIntensity(@, f)],
     hooks |-> AfterUpdate(NoHooks, f.node_id)]

\* NoUpdate that still notifies every node of the registry.
NoUpdate_NotifyAll(ns) == [nodes |-> ns, hooks |-> [i \in DOMAIN ns |-> 1]]

\* A call that returns, or raises, before it has written anything.
NoUpdate(ns) == [nodes |-> ns, hooks |-> NoHooks]

process_frame_position ==
    \E f \in PositionFrames
              \cup {UnknownNodeFrame("FrameNodeStatePositionChangedNotification")} :
        /\ Idle
        /\ UNCHANGED calls
        /\ frame' = f
        /\ before' = nodes
        /\ IF f.node_id \notin DOMAIN nodes
           THEN /\ nodes' = NoUpdate(nodes).nodes
                /\ hooks' = NoUpdate(nodes).hooks
                /\ raised' = "none"
                /\ clock' = None
           ELSE LET node == nodes[f.node_id] IN
                \E now \in ClockReadings :
                    /\ ReadsClock(node, f) \/ now = 0    \* no reading, no choice
                    /\ clock' = IF ReadsClock(node, f) THEN DateTime(now) ELSE None
                    /\ raised' = PositionFrameRaises(node)
                    /\ LET out == IF IsOpeningDevice(node)
                                  THEN UpdateOpeningDevice(nodes, f, now)
                                  ELSE IF IsLighteningDevice(node)
                                  THEN UpdateLighteningDevice(nodes, f)
                                  ELSE NoUpdate(nodes)
                       IN  /\ nodes' = out.nodes
                           /\ hooks' = out.hooks

---------------------------------------------------------------------------
(* process_frame_status_request_notification, lines 23-44. *)

\* SetPositionAndOrientation with the orientation test nested in the
\* position test.
SetPositionAndOrientation_Nested(node, f) ==
    LET position == Position(f.parameter_data[0])
        orientation == Position(f.parameter_data[3])
    IN  IF position.position <= ParameterMAX
        THEN IF orientation.position <= ParameterMAX
             THEN [node EXCEPT !.position = position, !.orientation = orientation]
             ELSE [node EXCEPT !.position = position]
        ELSE node

\* Lines 36-43: position and orientation, each written if within range.
SetPositionAndOrientation(node, f) ==
    LET position == Position(f.parameter_data[0])
        orientation == Position(f.parameter_data[3])
        n1 == IF position.position <= ParameterMAX
              THEN [node EXCEPT !.position = position] ELSE node
    IN  IF orientation.position <= ParameterMAX
        THEN [n1 EXCEPT !.orientation = orientation] ELSE n1

\* Lines 28-35: whether the call gets as far as the writes and the hook.
StatusRequestApplies(ns, f) ==
    /\ f.node_id \in DOMAIN ns
    /\ IsBlind(ns[f.node_id])
    /\ 0 \in DOMAIN f.parameter_data
    /\ 3 \in DOMAIN f.parameter_data

\* The handler with the two presence tests moved to the writes: a frame
\* that lacks one parameter still has the other one applied.
process_frame_status_request_notification_Partial ==
    \E f \in StatusRequestFrames
              \cup {UnknownNodeFrame("FrameStatusRequestNotification")} :
        /\ Idle
        /\ UNCHANGED calls
        /\ frame' = f
        /\ before' = nodes
        /\ clock' = None
        /\ raised' = "none"
        /\ IF f.node_id \in DOMAIN nodes /\ IsBlind(nodes[f.node_id])
           THEN LET pd == f.parameter_data
                    n0 == nodes[f.node_id]
                    n1 == IF 0 \in DOMAIN pd /\ Position(pd[0]).position <= ParameterMAX
                          THEN [n0 EXCEPT !.position = Position(pd[0])] ELSE n0
                    n2 == IF 3 \in DOMAIN pd /\ Position(pd[3]).position <= ParameterMAX
                          THEN [n1 EXCEPT !.orientation = Position(pd[3])] ELSE n1
                IN  /\ nodes' = [nodes EXCEPT ![f.node_id] = n2]
                    /\ hooks' = AfterUpdate(NoHooks, f.node_id)
           ELSE /\ nodes' = NoUpdate(nodes).nodes
                /\ hooks' = NoUpdate(nodes).hooks

process_frame_status_request_notification ==
    \E f \in StatusRequestFrames
              \cup {UnknownNodeFrame("FrameStatusRequestNotification")} :
        /\ Idle
        /\ UNCHANGED calls
        /\ frame' = f
        /\ before' = nodes
        /\ clock' = None
        /\ raised' = "none"
        /\ IF StatusRequestApplies(nodes, f)
           THEN /\ nodes' = [nodes EXCEPT ![f.node_id] =
                                 SetPositionAndOrientation(@, f)]
                /\ hooks' = AfterUpdate(NoHooks, f.node_id)
           ELSE /\ nodes' = NoUpdate(nodes).nodes
                /\ hooks' = NoUpdate(nodes).hooks

---------------------------------------------------------------------------
(* process_frame_limitation_status_notification, lines 46-57. *)

\* SetLimitation with the range filter of the other handlers on the bounds.
SetLimitation_Filtered(node, f) ==
    LET n1 == IF Position(f.max_value).position <= ParameterMAX
              THEN [node EXCEPT !.limitation_max = Position(f.max_value)] ELSE node
        n2 == IF Position(f.min_value).position <= ParameterMAX
              THEN [n1 EXCEPT !.limitation_min = Position(f.min_value)] ELSE n1
    IN  [n2 EXCEPT !.limitation_originator = f.limit_originator,
                   !.limitation_time = LimitationTime(f.limit_time)]

\* Lines 53-56: the four limitation fields, unconditionally.
SetLimitation(node, f) ==
    [node EXCEPT !.limitation_max = Position(f.max_value),
                 !.limitation_min = Position(f.min_value),
                 !.limitation_originator = f.limit_originator,
                 !.limitation_time = LimitationTime(f.limit_time)]

\* Lines 49-52: whether the call gets as far as the writes and the hook.
LimitationApplies(ns, f) ==
    /\ f.node_id \in DOMAIN ns
    /\ IsOpeningDevice(ns[f.node_id])

process_frame_limitation_status_notification ==
    \E f \in LimitationFrames
              \cup {UnknownNodeFrame("FrameGetLimitationStatusNotification")} :
        /\ Idle
        /\ UNCHANGED calls
        /\ frame' = f
        /\ before' = nodes
        /\ clock' = None
        /\ raised' = "none"
        /\ IF LimitationApplies(nodes, f)
           THEN /\ nodes' = [nodes EXCEPT ![f.node_id] = SetLimitation(@, f)]
                /\ hooks' = AfterUpdate(NoHooks, f.node_id)
           ELSE /\ nodes' = NoUpdate(nodes).nodes
                /\ hooks' = NoUpdate(nodes).hooks

---------------------------------------------------------------------------
(* process_frame with a frame of any other class: no branch matches. *)

process_frame_other ==
    \E f \in OtherFrames :
        /\ Idle
        /\ UNCHANGED calls
        /\ frame' = f
        /\ before' = nodes
        /\ clock' = None
        /\ raised' = "none"
        /\ nodes' = NoUpdate(nodes).nodes
        /\ hooks' = NoUpdate(nodes).hooks

---------------------------------------------------------------------------

\* The call has returned; its record is dropped before the next delivery.
call_returned ==
    /\ ~Idle
    /\ frame' = None
    /\ before' = nodes
    /\ clock' = None
    /\ hooks' = NoHooks
    /\ raised' = "none"
    /\ UNCHANGED <<nodes, calls>>

Init ==
    /\ nodes \in Registries
    /\ before = nodes
    /\ frame = None
    /\ clock = None
    /\ hooks = NoHooks
    /\ raised = "none"
    /\ calls = << >>

Next ==
    \/ process_frame_position
    \/ process_frame_status_request_notification
    \/ process_frame_limitation_status_notification
    \/ process_frame_other
    \/ call_returned

Spec == Init /\ [][Next]_vars

---------------------------------------------------------------------------
(* process_frame as a coroutine: it runs without interruption from its     *)
(* start to its one await of node.after_update(), is suspended there until *)
(* the hook has completed, and returns when it is resumed.                 *)

\* The number of process_frame calls that are started.
MaxCalls == 2

\* The frames delivered to the coroutines: positions and targets at both ends
\* of the range with time remaining (one frame for each of opening and
\* closing, two for neither), status requests with both parameters or the
\* main one only, one limitation frame.
DeliveredFrames ==
    { f \in PositionFrames :
        /\ f.state = "DONE"
        /\ f.current_position \in {0, ParameterMAX}
        /\ f.target \in {0, ParameterMAX}
        /\ f.remaining_time = MaxRemainingTime }
      \cup { f \in StatusRequestFrames :
               f.parameter_data \in [{0, 3} -> {0}] \cup [{0} -> {0}] }
      \cup { f \in LimitationFrames : f.limit_time = 0 }

\* Lines 59-159 up to the await: the branch the frame and the node select,
\* with its writes and its invocation of the hook.
ProcessFrame(ns, f, now) ==
    IF f.kind = "FrameOther" THEN NoUpdate(ns)
    ELSE IF f.node_id \notin DOMAIN ns THEN NoUpdate(ns)
    ELSE IF f.kind = "FrameNodeStatePositionChangedNotification"
    THEN IF IsOpeningDevice(ns[f.node_id]) THEN UpdateOpeningDevice(ns, f, now)
         ELSE IF IsLighteningDevice(ns[f.node_id]) THEN UpdateLighteningDevice(ns, f)
         ELSE NoUpdate(ns)
    ELSE IF f.kind = "FrameStatusRequestNotification"
    THEN IF StatusRequestApplies(ns, f)
         THEN [nodes |-> [ns EXCEPT ![f.node_id] = SetPositionAndOrientation(@, f)],
               hooks |-> AfterUpdate(NoHooks, f.node_id)]
         ELSE NoUpdate(ns)
    ELSE IF LimitationApplies(ns, f)
         THEN [nodes |-> [ns EXCEPT ![f.node_id] = SetLimitation(@, f)],
               hooks |-> AfterUpdate(NoHooks, f.node_id)]
         ELSE NoUpdate(ns)

\* The exception the call propagates instead of reaching an await.
ProcessFrameRaises(ns, f) ==
    IF /\ f.kind = "FrameNodeStatePositionChangedNotification"
       /\ f.node_id \in DOMAIN ns
    THEN PositionFrameRaises(ns[f.node_id]) ELSE "none"

\* The call takes a reading of the clock.
ProcessFrameReadsClock(ns, f) ==
    /\ f.kind = "FrameNodeStatePositionChangedNotification"
    /\ f.node_id \in DOMAIN ns
    /\ ReadsClock(ns[f.node_id], f)

\* The calls whose after_update is running.
InHook == { c \in DOMAIN calls : calls[c].hook = "running" }

\* A call starts and runs to its await, or to its end if it reaches none.
\* in_flight is the number of unreturned calls the caller allows at a start:
\* none if it serializes its deliveries.
process_frame_started(in_flight) ==
    \E f \in DeliveredFrames, now \in ClockReadings :
        /\ Len(calls) < MaxCalls
        /\ Cardinality({ c \in DOMAIN calls : calls[c].pc # "returned" }) <= in_flight
        /\ ProcessFrameReadsClock(nodes, f) \/ now = 0    \* no reading, no choice
        /\ LET out == ProcessFrame(nodes, f, now)
               awaits == out.hooks # NoHooks
           IN  /\ nodes' = out.nodes
               /\ calls' = Append(calls,
                     [frame |-> f, now |-> now,
                      invoked |-> out.hooks,
                      raised |-> ProcessFrameRaises(nodes, f),
                      hook |-> IF awaits THEN "running" ELSE "none",
                      pc |-> IF awaits THEN "suspended" ELSE "returned",
                      during |-> InHook])
        /\ UNCHANGED <<before, frame, clock, hooks, raised>>

\* node.after_update() of call c completes.  It writes no field of a node.
after_update_completes(c) ==
    /\ calls[c].hook = "running"
    /\ calls' = [calls EXCEPT ![c].hook = "completed"]
    /\ UNCHANGED <<nodes, before, frame, clock, hooks, raised>>

\* call_resumed that does not wait for the hook: after_update() is scheduled
\* and the call returns.
call_resumed_NotAwaited(c) ==
    /\ calls[c].pc = "suspended"
    /\ calls' = [calls EXCEPT ![c].pc = "returned"]
    /\ UNCHANGED <<nodes, before, frame, clock, hooks, raised>>

\* call_resumed with the main parameter written after the await.
call_resumed_WritesAfterHook(c) ==
    /\ calls[c].pc = "suspended"
    /\ calls[c].hook = "completed"
    /\ calls' = [calls EXCEPT ![c].pc = "returned"]
    /\ LET f == calls[c].frame IN
       nodes' = IF /\ f.kind = "FrameNodeStatePositionChangedNotification"
                   /\ IsOpeningDevice(nodes[f.node_id])
                THEN [nodes EXCEPT ![f.node_id] = SetMainParameter(@, f)]
                ELSE nodes
    /\ UNCHANGED <<before, frame, clock, hooks, raised>>

\* The await of lines 44, 57, 131 and 144 returns: the hook has completed,
\* and the await is the last statement of its branch, so the call returns.
call_resumed(c) ==
    /\ calls[c].pc = "suspended"
    /\ calls[c].hook = "completed"
    /\ calls' = [calls EXCEPT ![c].pc = "returned"]
    /\ UNCHANGED <<nodes, before, frame, clock, hooks, raised>>

\* A caller that serializes its deliveries: one call in flight at most.
SerializedNext ==
    \/ process_frame_started(0)
    \/ \E c \in DOMAIN calls : after_update_completes(c)
    \/ \E c \in DOMAIN calls : call_resumed(c)

SerializedSpec == Init /\ [][SerializedNext]_vars

\* A caller that starts calls without waiting for the earlier ones.
ConcurrentNext ==
    \/ process_frame_started(MaxCalls)
    \/ \E c \in DOMAIN calls : after_update_completes(c)
    \/ \E c \in DOMAIN calls : call_resumed(c)

ConcurrentSpec == Init /\ [][ConcurrentNext]_vars

---------------------------------------------------------------------------
(* The record of the last call, as the properties below read it. *)

PositionCall == ~Idle /\ frame.kind = "FrameNodeStatePositionChangedNotification"

StatusRequestCall == ~Idle /\ frame.kind = "FrameStatusRequestNotification"

LimitationCall == ~Idle /\ frame.kind = "FrameGetLimitationStatusNotification"

OtherCall == ~Idle /\ frame.kind = "FrameOther"

\* The last call was given a frame for a node of the registry.
ForRegisteredNode == ~Idle /\ ~OtherCall /\ frame.node_id \in DOMAIN before

\* The addressed node before and after the call.
Old == before[frame.node_id]
New == nodes[frame.node_id]

\* The call invoked the addressed node's after_update once and no other.
HookedOnce ==
    hooks = [i \in DOMAIN nodes |-> IF i = frame.node_id THEN 1 ELSE 0]

\* The call invoked no after_update.
NotHooked == \A i \in DOMAIN nodes : hooks[i] = 0

PositionCallForOpeningDevice ==
    PositionCall /\ ForRegisteredNode /\ Old.kind \in {"Window", "Blind"}

\* A StatusRequest for a Blind that carries MP and FP3.
StatusRequestCallForBlind ==
    /\ StatusRequestCall /\ ForRegisteredNode /\ Old.kind = "Blind"
    /\ {0, 3} \subseteq DOMAIN frame.parameter_data

---------------------------------------------------------------------------
(* C1 *)

\* C1: is_opening and is_closing of an OpeningDevice are never both true,
\* whatever frames have been processed.
C1_NeverOpeningAndClosing ==
    \A i \in DOMAIN nodes :
        nodes[i].kind \in {"Window", "Blind"} =>
            ~(nodes[i].is_opening /\ nodes[i].is_closing)

---------------------------------------------------------------------------
(* C2 *)

\* C2: estimated_completion of an OpeningDevice is present if and only if
\* the node is opening or closing.
C2_EstimatedCompletionIffMoving ==
    \A i \in DOMAIN nodes :
        nodes[i].kind \in {"Window", "Blind"} =>
            ((nodes[i].estimated_completion # None)
                <=> (nodes[i].is_opening \/ nodes[i].is_closing))

---------------------------------------------------------------------------
(* C3 *)

\* C3: a value beyond Parameter.MAX that a frame carries for position,
\* target, orientation or intensity leaves that field of the node as it was.
C3_OutOfRangeNeverWritten ==
    /\ PositionCallForOpeningDevice =>
          /\ frame.current_position > ParameterMAX => New.position = Old.position
          /\ frame.target > ParameterMAX => New.target = Old.target
    /\ (PositionCall /\ ForRegisteredNode /\ Old.kind = "LighteningDevice") =>
          (frame.current_position > ParameterMAX => New.intensity = Old.intensity)
    /\ StatusRequestCallForBlind =>
          /\ frame.parameter_data[0] > ParameterMAX => New.position = Old.position
          /\ frame.parameter_data[3] > ParameterMAX => New.orientation = Old.orientation

---------------------------------------------------------------------------
(* C4 *)

\* C4: no call of process_frame raises, whatever the frame and the node.
C4_NeverRaises == raised = "none"

---------------------------------------------------------------------------
(* C5 *)

\* C5: a frame for a node that is not in the registry, and a frame of a
\* class process_frame does not handle, change no node and invoke no hook.
C5_UnknownNodeOrFrameIsNoOp ==
    (~Idle /\ (OtherCall \/ frame.node_id \notin DOMAIN before)) =>
        (nodes = before /\ NotHooked)

\* A position frame for an unknown node has been dropped by a registry whose
\* node holds reported values, and they are all still there.
C5_Witness ==
    /\ PositionCall
    /\ frame.node_id \notin DOMAIN before
    /\ \E i \in DOMAIN nodes : nodes[i].kind = "Blind" /\ nodes[i].is_closing
    /\ nodes = before
    /\ NotHooked

---------------------------------------------------------------------------
(* C6 *)

\* C6: a position frame for an OpeningDevice sets is_opening exactly when
\* position > target, the target is within range and the node moves
\* (EXECUTING or remaining_time > 0); otherwise it sets is_closing exactly
\* when position < target under the same two conditions; in both cases
\* state_received_at is the clock reading and estimated_completion is
\* remaining_time seconds later.
C6_MotionInference ==
    PositionCallForOpeningDevice =>
        LET moves == frame.state = "EXECUTING" \/ frame.remaining_time > 0
            opens == /\ frame.current_position > frame.target
                     /\ frame.target <= ParameterMAX
                     /\ moves
            closes == /\ ~opens
                      /\ frame.current_position < frame.target
                      /\ frame.target <= ParameterMAX
                      /\ moves
        IN  /\ opens => New.is_opening
            /\ (New.is_opening /\ ~Old.is_opening) => opens
            /\ closes => New.is_closing
            /\ (New.is_closing /\ ~Old.is_closing) => closes
            /\ (opens \/ closes) =>
                  /\ clock # None
                  /\ New.state_received_at = clock
                  /\ New.estimated_completion =
                        [seconds |-> clock.seconds + frame.remaining_time]

\* Scenario A: a node at the lowest position is told position unchanged,
\* a higher target, EXECUTING and a remaining time, and is closing until
\* then.
C6_Witness ==
    /\ PositionCallForOpeningDevice
    /\ Old.position = [position |-> 0]
    /\ ~Old.is_opening /\ ~Old.is_closing
    /\ frame.current_position = 0
    /\ frame.target = ParameterMAX
    /\ frame.state = "EXECUTING"
    /\ frame.remaining_time = MaxRemainingTime
    /\ New.is_closing /\ ~New.is_opening
    /\ New.state_received_at = clock
    /\ New.estimated_completion = [seconds |-> clock.seconds + MaxRemainingTime]
    /\ New.position = [position |-> 0]
    /\ New.target = [position |-> ParameterMAX]

---------------------------------------------------------------------------
(* C7 *)

\* C7: a position frame for an OpeningDevice with position = target, or a
\* target beyond range, or neither EXECUTING nor a remaining time, leaves
\* is_opening and is_closing both false.
C7_IdleClearsBothFlags ==
    (/\ PositionCallForOpeningDevice
     /\ \/ frame.current_position = frame.target
        \/ frame.target > ParameterMAX
        \/ (frame.state # "EXECUTING" /\ frame.remaining_time = 0))
    => (~New.is_opening /\ ~New.is_closing)

\* Scenario B: a node that was closing is told position = target, DONE and
\* no remaining time, and is closing no more.
C7_Witness ==
    /\ PositionCallForOpeningDevice
    /\ Old.is_closing
    /\ frame.current_position = ParameterMAX
    /\ frame.target = ParameterMAX
    /\ frame.state = "DONE"
    /\ frame.remaining_time = 0
    /\ ~New.is_closing

---------------------------------------------------------------------------
(* C8 *)

\* C8: a StatusRequest with MP and FP3 for a Blind writes position iff MP
\* is within range and orientation iff FP3 is, each whatever the other is,
\* and invokes the hook once.
C8_StatusRequestWritesIndependently ==
    StatusRequestCallForBlind =>
        LET mp == frame.parameter_data[0]
            fp3 == frame.parameter_data[3]
        IN  /\ New.position =
                  IF mp <= ParameterMAX THEN [position |-> mp] ELSE Old.position
            /\ New.orientation =
                  IF fp3 <= ParameterMAX THEN [position |-> fp3] ELSE Old.orientation
            /\ HookedOnce

\* Scenario C: MP within range and FP3 beyond it: the position is new, the
\* orientation is the one reported before, the hook ran once.
C8_Witness ==
    /\ StatusRequestCallForBlind
    /\ frame.parameter_data[0] = ParameterMAX
    /\ frame.parameter_data[3] > ParameterMAX
    /\ Old.position = [position |-> 0]
    /\ Old.orientation = [position |-> 0]
    /\ New.position = [position |-> ParameterMAX]
    /\ New.orientation = [position |-> 0]
    /\ HookedOnce

---------------------------------------------------------------------------
(* C9 *)

\* C9: a LimitationStatus for an OpeningDevice overwrites the four
\* limitation fields from the frame, bounds beyond range included, changes
\* nothing else and invokes the hook once; for any other node it changes
\* nothing and invokes no hook.
C9_LimitationOverwrites ==
    (LimitationCall /\ ForRegisteredNode) =>
        IF Old.kind \in {"Window", "Blind"}
        THEN /\ nodes = [before EXCEPT ![frame.node_id] =
                    [Old EXCEPT
                        !.limitation_max = [position |-> frame.max_value],
                        !.limitation_min = [position |-> frame.min_value],
                        !.limitation_originator = frame.limit_originator,
                        !.limitation_time = [limit_raw |-> frame.limit_time]]]
             /\ HookedOnce
        ELSE nodes = before /\ NotHooked

\* Scenario E: a maximum beyond range replaces one within range.
C9_Witness ==
    /\ LimitationCall /\ ForRegisteredNode
    /\ Old.kind \in {"Window", "Blind"}
    /\ Old.limitation_max = [position |-> ParameterMAX]
    /\ frame.max_value > ParameterMAX
    /\ New.limitation_max = [position |-> frame.max_value]
    /\ New.limitation_originator = "USER"
    /\ HookedOnce

---------------------------------------------------------------------------
(* C10 *)

\* C10: a position frame for an OpeningDevice of the registry invokes that
\* node's hook exactly once, in every branch and also when no field changed.
C10_PositionFrameHooksOnce ==
    PositionCallForOpeningDevice => HookedOnce

\* An idle node is sent a position beyond range: nothing changed, and the
\* hook ran once.
C10_Witness ==
    /\ PositionCallForOpeningDevice
    /\ frame.current_position > ParameterMAX
    /\ ~Old.is_opening /\ ~Old.is_closing
    /\ nodes = before
    /\ HookedOnce

---------------------------------------------------------------------------
(* C11 *)

\* C11: a position frame for an OpeningDevice writes position and target
\* together exactly when the position is within range, in every motion
\* branch and whatever the target is; otherwise both keep their values; it
\* never writes orientation.
C11_PositionAndTargetTogether ==
    PositionCallForOpeningDevice =>
        /\ IF frame.current_position <= ParameterMAX
           THEN /\ New.position = [position |-> frame.current_position]
                /\ New.target = [position |-> frame.target]
           ELSE /\ New.position = Old.position
                /\ New.target = Old.target
        /\ Old.kind = "Blind" => New.orientation = Old.orientation

\* A Blind with a reported orientation and a target within range is sent a
\* position within range and a target beyond it: both are written.
C11_Witness ==
    /\ PositionCallForOpeningDevice
    /\ Old.kind = "Blind"
    /\ Old.orientation = [position |-> ParameterMAX]
    /\ Old.target = [position |-> 0]
    /\ frame.current_position = ParameterMAX
    /\ frame.target > ParameterMAX
    /\ New.position = [position |-> ParameterMAX]
    /\ New.target = [position |-> frame.target]
    /\ New.orientation = Old.orientation

---------------------------------------------------------------------------
(* C12 *)

\* The frame of the last call takes the else branch of the motion inference.
IdleBranchTaken ==
    /\ PositionCallForOpeningDevice
    /\ \/ frame.current_position = frame.target
       \/ frame.target > ParameterMAX
       \/ (frame.state # "EXECUTING" /\ frame.remaining_time = 0)

\* C12: the idle branch on a node that is closing and not opening clears
\* is_closing and keeps state_received_at and estimated_completion; on a
\* node that is opening it clears is_opening and both timestamps.
C12_ClosingClearKeepsTimestamps ==
    IdleBranchTaken =>
        /\ (Old.is_closing /\ ~Old.is_opening) =>
              /\ ~New.is_closing
              /\ New.state_received_at = Old.state_received_at
              /\ New.estimated_completion = Old.estimated_completion
        /\ Old.is_opening =>
              /\ ~New.is_opening
              /\ New.state_received_at = None
              /\ New.estimated_completion = None

\* A closing node has stopped and still holds the timestamps of the closing.
C12_Witness ==
    /\ IdleBranchTaken
    /\ Old.is_closing /\ ~Old.is_opening
    /\ ~New.is_closing
    /\ New.state_received_at # None
    /\ New.estimated_completion = Old.estimated_completion
    /\ New.estimated_completion # None

---------------------------------------------------------------------------
(* C13 *)

\* C13: a StatusRequest for a node that is not a Blind, or without the main
\* parameter, or without functional parameter 3, changes no node and invokes
\* no hook, whatever the parameter that is present carries.
C13_IncompleteStatusRequestIsNoOp ==
    (/\ StatusRequestCall /\ ForRegisteredNode
     /\ \/ Old.kind # "Blind"
        \/ 0 \notin DOMAIN frame.parameter_data
        \/ 3 \notin DOMAIN frame.parameter_data)
    => (nodes = before /\ NotHooked)

\* A Blind is sent a main parameter within range, other than its position,
\* and no functional parameter 3: the position is the old one.
C13_Witness ==
    /\ StatusRequestCall /\ ForRegisteredNode
    /\ Old.kind = "Blind"
    /\ DOMAIN frame.parameter_data = {0}
    /\ frame.parameter_data[0] = ParameterMAX
    /\ Old.position = [position |-> 0]
    /\ New.position = [position |-> 0]
    /\ nodes = before
    /\ NotHooked

---------------------------------------------------------------------------
(* C14 *)

\* C14: a position frame for a LighteningDevice writes intensity iff the
\* current_position is within range, changes nothing else and invokes the
\* hook once either way.
C14_IntensityWrittenIfInRange ==
    (PositionCall /\ ForRegisteredNode /\ Old.kind = "LighteningDevice") =>
        /\ nodes = [before EXCEPT ![frame.node_id] =
              [Old EXCEPT !.intensity =
                  IF frame.current_position <= ParameterMAX
                  THEN [intensity |-> frame.current_position]
                  ELSE Old.intensity]]
        /\ HookedOnce

\* A LighteningDevice with a reported intensity is sent a value beyond
\* range: the intensity stays and the hook ran once.
C14_Witness ==
    /\ PositionCall /\ ForRegisteredNode
    /\ Old.kind = "LighteningDevice"
    /\ Old.intensity = [intensity |-> ParameterMAX]
    /\ frame.current_position > ParameterMAX
    /\ New.intensity = [intensity |-> ParameterMAX]
    /\ HookedOnce

---------------------------------------------------------------------------
(* C15 *)

---------------------------------------------------------------------------
(* C16 *)

\* The invocations of node i's after_update that have not completed.
Outstanding(i) ==
    { c \in DOMAIN calls : calls[c].hook = "running" /\ calls[c].invoked[i] > 0 }

\* C16: a call invokes its node's after_update at most once and no other
\* node's; no field is written while a call is suspended in the hook, so
\* every write of the call precedes the invocation; a call that has returned
\* has no hook still running; and with deliveries serialized no node has two
\* invocations of its hook outstanding.
C16_HookOnceAfterWritesAndAwaited ==
    /\ [](\A c \in DOMAIN calls :
            /\ \A i \in DOMAIN nodes :
                  /\ calls[c].invoked[i] <= 1
                  /\ calls[c].invoked[i] = 1 => calls[c].frame.node_id = i
            /\ calls[c].pc = "returned" => calls[c].hook # "running")
    /\ [](\A i \in DOMAIN nodes : Cardinality(Outstanding(i)) <= 1)
    /\ [][(\E c \in DOMAIN calls : calls[c].pc = "suspended") => nodes' = nodes]_vars

\* Two calls for node 1 have been made one after the other; each has written
\* a position, invoked the hook once, waited for it and returned.
C16_Witness ==
    /\ Len(calls) = 2
    /\ \A c \in {1, 2} :
          /\ calls[c].frame.kind = "FrameNodeStatePositionChangedNotification"
          /\ calls[c].frame.node_id = 1
          /\ calls[c].invoked[1] = 1
          /\ calls[c].hook = "completed"
          /\ calls[c].pc = "returned"
    /\ calls[2].during = {}
    /\ before[1].kind = "Window"
    /\ calls[1].frame.current_position = 0
    /\ calls[2].frame.current_position = ParameterMAX
    /\ nodes[1].position = [position |-> ParameterMAX]

---------------------------------------------------------------------------
(* C17 *)

---------------------------------------------------------------------------
(* C18 *)

\* C18: while an OpeningDevice is opening or closing, state_received_at and
\* estimated_completion are both present and estimated_completion is not
\* earlier than state_received_at.
C18_MovingHasTimestamps ==
    \A i \in DOMAIN nodes :
        (/\ nodes[i].kind \in {"Window", "Blind"}
         /\ (nodes[i].is_opening \/ nodes[i].is_closing)) =>
            /\ nodes[i].state_received_at # None
            /\ nodes[i].estimated_completion # None
            /\ nodes[i].estimated_completion.seconds
                  >= nodes[i].state_received_at.seconds

\* A node is closing, told at the later clock reading, with a completion
\* estimated after it.
C18_Witness ==
    \E i \in DOMAIN nodes :
        /\ nodes[i].kind \in {"Window", "Blind"}
        /\ nodes[i].is_closing /\ ~nodes[i].is_opening
        /\ nodes[i].state_received_at = [seconds |-> MaxRemainingTime + 1]
        /\ nodes[i].estimated_completion = [seconds |-> 2 * MaxRemainingTime + 1]

---------------------------------------------------------------------------
(* C19 *)

\* C19: a position frame for an OpeningDevice with a position beyond range,
\* a target within range and EXECUTING or a remaining time sets is_opening
\* and the two timestamps and leaves position and target as they were; no
\* frame with a position beyond range sets is_closing.
C19_PositionNotRangeCheckedForMotion ==
    (PositionCallForOpeningDevice /\ frame.current_position > ParameterMAX) =>
        /\ (/\ frame.target <= ParameterMAX
            /\ (frame.state = "EXECUTING" \/ frame.remaining_time > 0)) =>
              /\ New.is_opening
              /\ clock # None
              /\ New.state_received_at = clock
              /\ New.estimated_completion =
                    [seconds |-> clock.seconds + frame.remaining_time]
              /\ New.position = Old.position
              /\ New.target = Old.target
        /\ ~(New.is_closing /\ ~Old.is_closing)

\* An idle node at a reported position is sent a position beyond range and
\* a target within range while EXECUTING: it is opening, its position and
\* target are the old ones.
C19_Witness ==
    /\ PositionCallForOpeningDevice
    /\ frame.current_position > ParameterMAX
    /\ frame.target = 0
    /\ frame.state = "EXECUTING"
    /\ ~Old.is_opening /\ ~Old.is_closing
    /\ Old.position = [position |-> 0]
    /\ Old.target = [position |-> ParameterMAX]
    /\ New.is_opening /\ ~New.is_closing
    /\ New.state_received_at = clock
    /\ New.position = [position |-> 0]
    /\ New.target = [position |-> ParameterMAX]

---------------------------------------------------------------------------
(* C20 *)

\* The registry after the calls cs have run one after the other on ns, each
\* with the clock reading it took.
RECURSIVE RunInOrder(_, _)
RunInOrder(ns, cs) ==
    IF cs = << >> THEN ns
    ELSE RunInOrder(ProcessFrame(ns, Head(cs).frame, Head(cs).now).nodes, Tail(cs))

\* C20: with calls started while earlier ones are suspended in the hook, the
\* registry is at every moment, and so when all calls have returned, what
\* the calls started so far produce when run one after the other in start
\* order: the writes of an earlier call all precede those of a later one.
C20_OverlappingCallsRunInStartOrder ==
    nodes = RunInOrder(before, calls)

\* The second call for a Window started while the hook of the first was
\* running, so two invocations of the node's hook were outstanding; both
\* calls have returned; the first had set the node opening, the second has
\* found it at rest: the node has the position of the second, is not
\* opening and has no estimated completion.
C20_Witness ==
    /\ Len(calls) = 2
    /\ before[1].kind = "Window"
    /\ \A c \in {1, 2} :
          /\ calls[c].frame.kind = "FrameNodeStatePositionChangedNotification"
          /\ calls[c].frame.node_id = 1
          /\ calls[c].invoked[1] = 1
          /\ calls[c].pc = "returned"
    /\ calls[2].during = {1}
    /\ calls[1].frame.current_position = ParameterMAX
    /\ calls[1].frame.target = 0
    /\ calls[2].frame.current_position = 0
    /\ calls[2].frame.target = 0
    /\ nodes[1].position = [position |-> 0]
    /\ ~nodes[1].is_opening
    /\ nodes[1].estimated_completion = None

====
